---- MODULE Spec2Model ----
(***************************************************************************)
(* Model of the PDQ-hash Groth16 prover/verifier of src/src/snark.rs.      *)
(*                                                                         *)
(* Scaling.  The program works on 64x64 buffers, a 16x16 DCT block, 32     *)
(* hash bytes, 64-bit machine words and the ~2^255 scalar field of         *)
(* BLS12-381.  The model keeps every formula of the source and shrinks     *)
(* the sizes: the relations the source relies on are kept                  *)
(*   DCT_VALUE_COUNT = PDQ_HASH_BITS,  2^CORRECTION_BITS < 2^WORD_BITS < P *)
(* and every honest value stays far inside the word range and the field.  *)
(*                                                                         *)
(* Floats.  An f32/f64 value is a dyadic rational n / FLOAT_DEN, held as   *)
(* its numerator n.  FLOAT_DEN is one bit finer than FINAL_SCALE, so that  *)
(* the roundings of the source are real roundings in the model.            *)
(***************************************************************************)
EXTENDS Integers, Sequences, FiniteSets, TLC

VARIABLES
    pc,     \* "init", "proved" once create_proof returned, "verified" after verify
    res,    \* what the last create_proof call returned (and the PDQ state it saw)
    vres,   \* what the last verify_proof / verify_with_key call returned
    asg,    \* one coefficient's slots of a circuit assignment chosen by a prover
    res2,   \* what a second create_proof call on the same image returned
    pack,   \* a hash, its public-input vector and the circuit's instance bits
    dctrun, \* a pixel vector with the off-circuit and the in-circuit DCT of it
    once,   \* the OnceLock TABLE of dct_coefficients and the threads calling it
    ra      \* a Regime A session: setup, submission, the server's decision

vars == <<pc, res, vres, asg, res2, pack, dctrun, once, ra>>

\* the variables outside the prover / verifier session
aside == <<res2, pack, dctrun, once, ra>>

---------------------------------------------------------------------------
(* Constants of snark.rs, scaled.                                          *)

\* snark.rs:23, 64 in the source
BUFFER_EDGE == 2
\* snark.rs:25, 16 in the source
DCT_EDGE == 4
DCT_VALUE_COUNT == DCT_EDGE * DCT_EDGE
\* dwn_pdq::PDQ_HASH_LENGTH, 32 in the program (spec.md, section 6)
PDQ_HASH_LENGTH == 2
PDQ_HASH_BITS == PDQ_HASH_LENGTH * 8
\* snark.rs:30, 1 << 12 in the source
LUMA_FIXED_SCALE == 2
\* snark.rs:31, 1 << 14 in the source
DCT_FIXED_SCALE == 2
FINAL_SCALE == LUMA_FIXED_SCALE * DCT_FIXED_SCALE * DCT_FIXED_SCALE
\* snark.rs:34, 46 in the source
CORRECTION_BITS == 3
CORRECTION_TOLERANCE == 2 ^ CORRECTION_BITS
\* width of i64 / u64 / UInt64, 64 in the source
WORD_BITS == 6
\* modulus of the scalar field BlsFr (a prime), about 2^255 in the source
P == 251

FLOAT_DEN == 2 * FINAL_SCALE

---------------------------------------------------------------------------
(* Machine words.                                                          *)

\* `x as u64`: the value modulo 2^64
AsU64(x) == x % (2 ^ WORD_BITS)

\* `x as i64`: two's complement truncation
AsI64(x) ==
    LET u == x % (2 ^ WORD_BITS)
    IN  IF u >= 2 ^ (WORD_BITS - 1) THEN u - 2 ^ WORD_BITS ELSE u

\* f64::round: to the nearest integer, halves away from zero; n / d with d > 0
RoundDiv(n, d) ==
    IF n >= 0 THEN (2 * n + d) \div (2 * d)
              ELSE -((2 * (-n) + d) \div (2 * d))

\* `(value as f64 * SCALE as f64).round() as i64` of the float n / FLOAT_DEN
ScaleRound(n, scale) == RoundDiv(n * scale, FLOAT_DEN)

---------------------------------------------------------------------------
(* The prime field.                                                        *)

Fr == 0 .. (P - 1)

FAdd(a, b) == (a + b) % P
FSub(a, b) == ((a - b) + P) % P
FMul(a, b) == (a * b) % P

\* Field::inverse: None (here 0) for zero
FInverse(a) == IF a = 0 THEN 0 ELSE CHOOSE y \in 1 .. (P - 1) : (a * y) % P = 1

field_from_i64(value) ==
    IF value >= 0 THEN value % P
                  ELSE (P - ((-value) % P)) % P

\* the signed integer a field element embeds
Signed(x) == IF x <= (P - 1) \div 2 THEN x ELSE x - P

---------------------------------------------------------------------------
(* Fixed-point encoder and integer DCT (snark.rs:47-103).                  *)

RECURSIVE Sum(_, _)
\* f[0] + ... + f[n-1]
Sum(f, n) == IF n = 0 THEN 0 ELSE Sum(f, n - 1) + f[n - 1]

RECURSIVE FSum(_, _)
\* the same sum in the field
FSum(f, n) == IF n = 0 THEN 0 ELSE FAdd(FSum(f, n - 1), f[n - 1])

\* dct::DCT_MATRIX: the DCT-II kernel sqrt(2/n) cos(pi/(2n) (r+1)(2c+1)) for
\* n = BUFFER_EDGE, rows r = 0 .. DCT_EDGE-1, as floats (numerators over FLOAT_DEN)
DCT_MATRIX ==
    << <<11, -11>>, <<0, 0>>, <<-11, 11>>, <<-16, -16>> >>

\* the table the OnceLock holds: round(coeff * DCT_FIXED_SCALE)
dct_coefficients ==
    [row \in 1 .. DCT_EDGE |->
        [col \in 1 .. BUFFER_EDGE |-> ScaleRound(DCT_MATRIX[row][col], DCT_FIXED_SCALE)]]

\* buffer: BUFFER_EDGE rows of BUFFER_EDGE floats; result: row-major i64 vector
quantize_buffer(buffer) ==
    [i \in 1 .. (BUFFER_EDGE * BUFFER_EDGE) |->
        AsI64(ScaleRound(buffer[((i - 1) \div BUFFER_EDGE) + 1][((i - 1) % BUFFER_EDGE) + 1],
                         LUMA_FIXED_SCALE))]

\* `x as i128`: the accumulators are twice as wide as a word; an overflowing
\* `acc +=` wraps (a build with overflow checks stops the program instead)
AsI128(x) ==
    LET u == x % (2 ^ (2 * WORD_BITS))
    IN  IF u >= 2 ^ (2 * WORD_BITS - 1) THEN u - 2 ^ (2 * WORD_BITS) ELSE u

\* a second pass that multiplies by the kernel row of the output row instead
\* of the output column
compute_dct_fixed_row_kernel(pixels) ==
    LET coeffs == dct_coefficients
        intermediate ==
            [i \in 0 .. (DCT_EDGE * BUFFER_EDGE - 1) |->
                LET row == i \div BUFFER_EDGE
                    col == i % BUFFER_EDGE
                IN  AsI128(Sum([k \in 0 .. (BUFFER_EDGE - 1) |->
                                   coeffs[row + 1][k + 1] * pixels[k * BUFFER_EDGE + col + 1]],
                               BUFFER_EDGE))]
    IN  [i \in 1 .. DCT_VALUE_COUNT |->
            LET row == (i - 1) \div DCT_EDGE
                col == (i - 1) % DCT_EDGE
            IN  AsI64(AsI128(Sum([k \in 0 .. (BUFFER_EDGE - 1) |->
                                     intermediate[row * BUFFER_EDGE + k] * coeffs[row + 1][k + 1]],
                                 BUFFER_EDGE)))]

\* snark.rs:74-103: i128 accumulators, the final `acc as i64` truncates
compute_dct_fixed(pixels) ==
    LET coeffs == dct_coefficients
        intermediate ==
            [i \in 0 .. (DCT_EDGE * BUFFER_EDGE - 1) |->
                LET row == i \div BUFFER_EDGE
                    col == i % BUFFER_EDGE
                IN  AsI128(Sum([k \in 0 .. (BUFFER_EDGE - 1) |->
                                   coeffs[row + 1][k + 1] * pixels[k * BUFFER_EDGE + col + 1]],
                               BUFFER_EDGE))]
    IN  [i \in 1 .. DCT_VALUE_COUNT |->
            LET row == (i - 1) \div DCT_EDGE
                col == (i - 1) % DCT_EDGE
            IN  AsI64(AsI128(Sum([k \in 0 .. (BUFFER_EDGE - 1) |->
                                     intermediate[row * BUFFER_EDGE + k] * coeffs[col + 1][k + 1]],
                                 BUFFER_EDGE)))]

---------------------------------------------------------------------------
(* PDQHashCircuit::generate_constraints (snark.rs:128-247).                *)
(* A circuit is the record of the struct's fields; an assignment satisfies *)
(* it when every enforce_equal of the synthesiser holds.                   *)

\* snark.rs:152-153: the Boolean allocated as public input idx (0-based)
HashBitAt(hash_bytes, idx) ==
    (hash_bytes[(PDQ_HASH_LENGTH - 1 - (idx \div 8)) + 1] \div (2 ^ (idx % 8))) % 2

\* snark.rs:150-155: the instance (public-input) assignment, in allocation order
InstanceOf(hash_bytes) ==
    [n \in 1 .. DCT_VALUE_COUNT |-> HashBitAt(hash_bytes, n - 1)]

\* snark.rs:166-191: the affine expressions dct_i over the pixel variables
CircuitDct(pixel_vars) ==
    LET coeffs == dct_coefficients
        intermediate ==
            [i \in 0 .. (DCT_EDGE * BUFFER_EDGE - 1) |->
                LET row == i \div BUFFER_EDGE
                    col == i % BUFFER_EDGE
                IN  FSum([k \in 0 .. (BUFFER_EDGE - 1) |->
                             FMul(pixel_vars[k * BUFFER_EDGE + col + 1],
                                  field_from_i64(coeffs[row + 1][k + 1]))],
                         BUFFER_EDGE)]
    IN  [i \in 1 .. DCT_VALUE_COUNT |->
            LET row == (i - 1) \div DCT_EDGE
                col == (i - 1) % DCT_EDGE
            IN  FSum([k \in 0 .. (BUFFER_EDGE - 1) |->
                         FMul(intermediate[row * BUFFER_EDGE + k],
                              field_from_i64(coeffs[col + 1][k + 1]))],
                     BUFFER_EDGE)]

\* a range check that starts forcing bits to zero one position too high
CorrRangeOkFromNextBit(corr_u64) ==
    /\ corr_u64 \in 0 .. (2 ^ WORD_BITS - 1)
    /\ corr_u64 \div (2 ^ (CORRECTION_BITS + 1)) = 0

\* snark.rs:202-211: a UInt64 witness whose bits CORRECTION_BITS.. are forced to 0
CorrRangeOk(corr_u64) ==
    /\ corr_u64 \in 0 .. (2 ^ WORD_BITS - 1)
    /\ corr_u64 \div (2 ^ CORRECTION_BITS) = 0

\* snark.rs:213-227: the field element recomposed from the 64 bits
CorrFp(corr_u64) == corr_u64 % P

\* snark.rs:229-232: rounding reconciliation
ReconcileOk(dct, median, w) ==
    /\ CorrRangeOk(w.corr_pos)
    /\ CorrRangeOk(w.corr_neg)
    /\ FSub(FSub(dct, median), w.float_diff) = FSub(CorrFp(w.corr_pos), CorrFp(w.corr_neg))
    /\ FMul(CorrFp(w.corr_pos), CorrFp(w.corr_neg)) = 0

\* a gadget without the constraint that ties a set bit to an invertible
\* difference
SignGadgetOkNoInverse(bit, w) ==
    /\ bit \in {0, 1}
    /\ FSub(w.pos, w.neg) = w.float_diff
    /\ FMul(w.pos, w.neg) = 0
    /\ FMul(bit, w.neg) = 0
    /\ FMul(FSub(1, bit), w.pos) = 0

\* snark.rs:234-242: the sign gadget; Boolean::new_input makes bit 0 or 1
SignGadgetOk(bit, w) ==
    /\ bit \in {0, 1}
    /\ FSub(w.pos, w.neg) = w.float_diff
    /\ FMul(w.pos, w.neg) = 0
    /\ FMul(bit, w.neg) = 0
    /\ FMul(FSub(1, bit), w.pos) = 0
    /\ FMul(bit, FSub(FMul(w.float_diff, w.inv), 1)) = 0

\* snark.rs:194-243: all constraints of coefficient idx
GadgetOk(dct, median, bit, w) ==
    /\ ReconcileOk(dct, median, w)
    /\ SignGadgetOk(bit, w)

\* snark.rs:195-203: the witness slots of coefficient idx (0-based) as allocated
SlotOf(c, idx) ==
    [pos        |-> field_from_i64(c.pos_diffs[idx + 1]),
     neg        |-> field_from_i64(c.neg_diffs[idx + 1]),
     inv        |-> c.diff_inverses[idx + 1],
     float_diff |-> field_from_i64(c.float_diffs[idx + 1]),
     corr_pos   |-> AsU64(c.corr_pos[idx + 1]),
     corr_neg   |-> AsU64(c.corr_neg[idx + 1])]

\* cs.is_satisfied() after generate_constraints(c)
Satisfied(c) ==
    LET dct_values == CircuitDct([i \in 1 .. Len(c.pixels) |-> field_from_i64(c.pixels[i])])
        median_var == field_from_i64(c.median)
        hash_bits  == InstanceOf(c.hash)
    IN  \A idx \in 0 .. (DCT_VALUE_COUNT - 1) :
            GadgetOk(dct_values[idx + 1], median_var, hash_bits[idx + 1], SlotOf(c, idx))

---------------------------------------------------------------------------
(* The external PDQ collaborator (crate::dwn_pdq, spec.md 4.6).            *)

\* snark.rs:312-313: round((dct16[idx] - median) * FINAL_SCALE) as i64
FloatScaled(dct16_i, median_f) ==
    AsI64(RoundDiv((dct16_i - median_f) * FINAL_SCALE, FLOAT_DEN))

\* the hash the collaborator packs: bit i is set iff coefficient i lies above
\* the median, bit i being bit (i mod 8) of byte PDQ_HASH_LENGTH - 1 - i/8
PdqHash(dct16, median_f) ==
    [b \in 1 .. PDQ_HASH_LENGTH |->
        Sum([k \in 0 .. 7 |->
                LET idx == (PDQ_HASH_LENGTH - b) * 8 + k
                IN  IF FloatScaled(dct16[idx + 1], median_f) > 0 THEN 2 ^ k ELSE 0],
            8)]

\* compute_pdq_state(&image)
compute_pdq_state(image) ==
    [buffer64 |-> image.buffer64,
     dct16    |-> image.dct16,
     median   |-> image.median,
     hash     |-> PdqHash(image.dct16, image.median)]

---------------------------------------------------------------------------
(* Groth16 over the circuit, as the library's contract: a proof verifies   *)
(* exactly when it was made under the matching key from an assignment      *)
(* that satisfies the circuit, and is checked against the instance it was  *)
(* made for.  `blind` is the prover's randomness.                          *)

\* PDQSnark::setup (snark.rs:260-278): one instance variable per public input
\* plus the constant one
setup(seed) ==
    [proving_key   |-> [id |-> seed],
     verifying_key |-> [id |-> seed, gamma_abc_len |-> DCT_VALUE_COUNT + 1]]

\* Groth16::prove (snark.rs:361).  An unsatisfied assignment trips the
\* prover's debug assertion in a debug build and yields a proof that does
\* not verify in a release build.
Groth16Prove(proving_key, circuit, rng, debug_assertions) ==
    IF Satisfied(circuit)
    THEN [panic |-> FALSE,
          proof |-> [key |-> proving_key.id, stmt |-> InstanceOf(circuit.hash),
                     valid |-> TRUE, blind |-> rng]]
    ELSE [panic |-> debug_assertions,
          proof |-> [key |-> proving_key.id, stmt |-> InstanceOf(circuit.hash),
                     valid |-> FALSE, blind |-> rng]]

\* Groth16::process_vk + verify_with_processed_vk (snark.rs:400-405):
\* prepare_inputs rejects a length mismatch, the pairing check decides the rest
Groth16Verify(verifying_key, public_inputs, proof) ==
    IF Len(public_inputs) + 1 # verifying_key.gamma_abc_len
    THEN "Groth16Error"
    ELSE IF /\ proof.valid
            /\ proof.key = verifying_key.id
            /\ proof.stmt = public_inputs
         THEN "Ok(true)"
         ELSE "Ok(false)"

---------------------------------------------------------------------------
(* PDQSnark::create_proof (snark.rs:281-369).                              *)

\* a comparison that looks at the first hash byte only
HashMismatchFirstByte(hash_bytes, target_hash) == hash_bytes[1] # target_hash[1]

\* snark.rs:297
HashMismatch(hash_bytes, target_hash) == hash_bytes # target_hash

\* a tolerance check that also rejects a slack of exactly CORRECTION_TOLERANCE
ToleranceExceededInclusive(pos_corr, neg_corr) ==
    pos_corr >= CORRECTION_TOLERANCE \/ neg_corr >= CORRECTION_TOLERANCE

\* snark.rs:322
ToleranceExceeded(pos_corr, neg_corr) ==
    pos_corr > CORRECTION_TOLERANCE \/ neg_corr > CORRECTION_TOLERANCE

\* snark.rs:316-320
CorrPair(delta) ==
    IF delta >= 0 THEN <<AsU64(delta), 0>> ELSE <<0, AsU64(-delta)>>

\* a split that pushes a negative difference as it is
SignSplitNoNegate(float_scaled) ==
    IF float_scaled > 0 THEN <<float_scaled, 0>> ELSE <<0, float_scaled>>

\* snark.rs:330-336
SignSplit(float_scaled) ==
    IF float_scaled > 0 THEN <<float_scaled, 0>> ELSE <<0, AsI64(-float_scaled)>>

\* snark.rs:338-345
DiffInverse(float_scaled) ==
    LET diff_field == field_from_i64(float_scaled)
    IN  IF diff_field = 0 THEN 0 ELSE FInverse(diff_field)

\* snark.rs:303-308
EmptyWitness ==
    [pos |-> <<>>, neg |-> <<>>, inverses |-> <<>>, float_diffs |-> <<>>,
     corr_pos |-> <<>>, corr_neg |-> <<>>]

RECURSIVE WitnessLoop(_, _, _, _, _)
\* snark.rs:310-347: the loop from index idx on, w holding the vectors pushed
\* so far; it returns at the first coefficient that exceeds the tolerance
WitnessLoop(idx, w, dct_values, median, state) ==
    IF idx = Len(dct_values)
    THEN [exceeded |-> FALSE, idx |-> idx, w |-> w]
    ELSE
      LET value        == dct_values[idx + 1]
          diff         == AsI64(value - median)
          float_scaled == FloatScaled(state.dct16[idx + 1], state.median)
          delta        == AsI64(diff - float_scaled)
          corr         == CorrPair(delta)
          split        == SignSplit(float_scaled)
      IN  IF ToleranceExceeded(corr[1], corr[2])
          THEN [exceeded |-> TRUE, idx |-> idx, w |-> w]
          ELSE WitnessLoop(idx + 1,
                   [pos         |-> Append(w.pos, split[1]),
                    neg         |-> Append(w.neg, split[2]),
                    inverses    |-> Append(w.inverses, DiffInverse(float_scaled)),
                    float_diffs |-> Append(w.float_diffs, float_scaled),
                    corr_pos    |-> Append(w.corr_pos, AsI64(corr[1])),
                    corr_neg    |-> Append(w.corr_neg, AsI64(corr[2]))],
                   dct_values, median, state)

Reverse(s) == [i \in 1 .. Len(s) |-> s[Len(s) + 1 - i]]

\* a vector built from the bytes in their stored order
PublicInputsNoReverse(hash_bytes) ==
    [n \in 1 .. (Len(hash_bytes) * 8) |->
        ((hash_bytes[((n - 1) \div 8) + 1] \div (2 ^ ((n - 1) % 8))) % 2) % P]

\* a vector that takes each byte's bits from the highest down
PublicInputsMsbFirst(hash_bytes) ==
    LET rev == Reverse(hash_bytes)
    IN  [n \in 1 .. (Len(hash_bytes) * 8) |->
            ((rev[((n - 1) \div 8) + 1] \div (2 ^ (7 - ((n - 1) % 8)))) % 2) % P]

\* snark.rs:362-366: bytes reversed, each byte's bits from the lowest up
PublicInputs(hash_bytes) ==
    LET rev == Reverse(hash_bytes)
    IN  [n \in 1 .. (Len(hash_bytes) * 8) |->
            ((rev[((n - 1) \div 8) + 1] \div (2 ^ ((n - 1) % 8))) % 2) % P]

\* a result whose witness takes the inverse slot of a zero difference from the
\* randomness that blinds the proof
OutcomeRngWitness(kind, state, target_hash, fail_idx, circuit, proof, public_inputs) ==
    [kind |-> kind, state |-> state, target |-> target_hash, fail_idx |-> fail_idx,
     circuit |-> IF circuit # <<>> /\ proof # <<>>
                 THEN << [circuit[1] EXCEPT !.diff_inverses =
                             [i \in DOMAIN @ |-> IF @[i] = 0 THEN proof[1].blind ELSE @[i]]] >>
                 ELSE circuit,
     proof |-> proof, public_inputs |-> public_inputs]

\* what a call returns: kind is "Ok", an error, or "ProvePanic"; the Option
\* fields are sequences of length 0 or 1
Outcome(kind, state, target_hash, fail_idx, circuit, proof, public_inputs) ==
    [kind |-> kind, state |-> state, target |-> target_hash, fail_idx |-> fail_idx,
     circuit |-> circuit, proof |-> proof, public_inputs |-> public_inputs]

create_proof(snark, image, target_hash, rng, debug_assertions) ==
    IF ~image.decodable
    THEN Outcome("ImageDecode", <<>>, target_hash, -1, <<>>, <<>>, <<>>)
    ELSE
      LET state      == compute_pdq_state(image)
          quantised  == quantize_buffer(state.buffer64)
          dct_values == compute_dct_fixed(quantised)
          median     == AsI64(ScaleRound(state.median, FINAL_SCALE))
          hash_bytes == state.hash
      IN  IF HashMismatch(hash_bytes, target_hash)
          THEN Outcome("HashMismatch", <<state>>, target_hash, -1, <<>>, <<>>, <<>>)
          ELSE
            LET built == WitnessLoop(0, EmptyWitness, dct_values, median, state)
            IN  IF built.exceeded
                THEN Outcome("ToleranceExceeded", <<state>>, target_hash, built.idx,
                             <<>>, <<>>, <<>>)
                ELSE
                  LET circuit ==
                          [pixels        |-> quantised,
                           median        |-> median,
                           hash          |-> hash_bytes,
                           pos_diffs     |-> built.w.pos,
                           neg_diffs     |-> built.w.neg,
                           diff_inverses |-> built.w.inverses,
                           float_diffs   |-> built.w.float_diffs,
                           corr_pos      |-> built.w.corr_pos,
                           corr_neg      |-> built.w.corr_neg]
                      proved == Groth16Prove(snark.proving_key, circuit, rng,
                                             debug_assertions)
                  IN  IF proved.panic
                      THEN Outcome("ProvePanic", <<state>>, target_hash, -1,
                                   <<circuit>>, <<>>, <<>>)
                      ELSE Outcome("Ok", <<state>>, target_hash, -1, <<circuit>>,
                                   <<proved.proof>>, <<PublicInputs(hash_bytes)>>)

---------------------------------------------------------------------------
(* PDQSnark::verify_with_key and verify_proof (snark.rs:372-406).          *)

\* a shape check that forgets the constant term of the commitment vector
KeyShapeMismatchOffByOne(gamma_abc_len, inputs_len) == gamma_abc_len # inputs_len

\* snark.rs:393
KeyShapeMismatch(gamma_abc_len, inputs_len) == gamma_abc_len # inputs_len + 1

\* snark.rs:396: `gamma_abc_g1.len() - 1` in usize, evaluated to format the
\* error; with overflow checks on, 0 - 1 panics, without them it wraps
KeyShapeError(gamma_abc_len, overflow_checks) ==
    IF gamma_abc_len - 1 < 0 /\ overflow_checks THEN "panic" ELSE "KeyShape"

\* a verifier that checks the key's shape before the number of public inputs
verify_with_key_shape_first(verifying_key, proof, public_inputs, overflow_checks) ==
    IF KeyShapeMismatch(verifying_key.gamma_abc_len, PDQ_HASH_BITS)
    THEN KeyShapeError(verifying_key.gamma_abc_len, overflow_checks)
    ELSE IF Len(public_inputs) # PDQ_HASH_BITS
         THEN "PublicInputLength"
         ELSE Groth16Verify(verifying_key, public_inputs, proof)

\* a verifier that checks the proof against the instance the proof was made
\* for instead of the caller's public inputs
verify_with_key_own_statement(verifying_key, proof, public_inputs, overflow_checks) ==
    IF Len(public_inputs) # PDQ_HASH_BITS
    THEN "PublicInputLength"
    ELSE IF KeyShapeMismatch(verifying_key.gamma_abc_len, Len(public_inputs))
         THEN KeyShapeError(verifying_key.gamma_abc_len, overflow_checks)
         ELSE Groth16Verify(verifying_key, proof.stmt, proof)

verify_with_key(verifying_key, proof, public_inputs, overflow_checks) ==
    IF Len(public_inputs) # PDQ_HASH_BITS
    THEN "PublicInputLength"
    ELSE IF KeyShapeMismatch(verifying_key.gamma_abc_len, Len(public_inputs))
         THEN KeyShapeError(verifying_key.gamma_abc_len, overflow_checks)
         ELSE Groth16Verify(verifying_key, public_inputs, proof)

verify_proof(snark, proof, public_inputs, overflow_checks) ==
    verify_with_key(snark.verifying_key, proof, public_inputs, overflow_checks)

---------------------------------------------------------------------------
(* Inputs.                                                                 *)

\* seeds of the caller's RNG
MaxSeed == 2
Seeds == 1 .. MaxSeed

\* the facade built by PDQSnark::setup, and a key from another setup
Snark == setup(1)
OtherSnark == setup(2)

\* 64x64 luminance buffers (floats)
Buffers ==
    { << <<0, 0>>, <<0, 0>> >>,
      << <<8, 3>>, <<4, 7>> >> }

\* float medians
Medians == {0, 3}

\* how far (in floats) the collaborator's float DCT lies from the integer DCT
ErrSet ==
    { -(2 * CORRECTION_TOLERANCE + 2), -(2 * CORRECTION_TOLERANCE), -1, 0, 1,
      2 * CORRECTION_TOLERANCE, 2 * CORRECTION_TOLERANCE + 2 }

\* how many of the leading coefficients may carry an error (the last one may too)
MaxErrIdx == 2

\* decodable images, given by what the collaborator computes from them: the
\* float DCT is the integer DCT rescaled, off by a at coefficient j and by b at
\* the last coefficient.  As for real luminance buffers, every i64 operation
\* of create_proof stays inside the word range for these inputs.
Images ==
    { [decodable |-> TRUE,
       buffer64  |-> buf,
       median    |-> med,
       dct16     |-> [i \in 1 .. DCT_VALUE_COUNT |->
                        2 * compute_dct_fixed(quantize_buffer(buf))[i]
                        + (IF i = j THEN a ELSE IF i = DCT_VALUE_COUNT THEN b ELSE 0)]] :
      buf \in Buffers, med \in Medians, j \in 1 .. MaxErrIdx, a \in ErrSet, b \in ErrSet }

Undecodable ==
    [decodable |-> FALSE, buffer64 |-> <<>>, median |-> 0, dct16 |-> <<>>]

ZeroHash == [b \in 1 .. PDQ_HASH_LENGTH |-> 0]

\* hash h with bit k (0 .. 7) of byte b flipped
FlipHashBit(h, b, k) ==
    [h EXCEPT ![b] = IF (h[b] \div (2 ^ k)) % 2 = 1 THEN h[b] - 2 ^ k ELSE h[b] + 2 ^ k]

\* target hashes a caller passes with an image
Targets(image) ==
    IF ~image.decodable THEN {ZeroHash}
    ELSE LET h == compute_pdq_state(image).hash
         IN  {h, FlipHashBit(h, PDQ_HASH_LENGTH, 0), FlipHashBit(h, 1, 7)}

\* public-input vector x with element n flipped
FlipInput(x, n) == [x EXCEPT ![n] = 1 - x[n]]

\* a proof object that no prover holding a witness made
Garbage == [key |-> 0, stmt |-> <<>>, valid |-> FALSE, blind |-> 0]

NoOutcome == Outcome("none", <<>>, ZeroHash, -1, <<>>, <<>>, <<>>)

NoVerify ==
    [api |-> "none", vk |-> Snark.verifying_key, proof |-> Garbage,
     public_inputs |-> <<>>, out |-> "none"]

ZeroSlot ==
    [pos |-> 0, neg |-> 0, inv |-> 0, float_diff |-> 0, corr_pos |-> 0, corr_neg |-> 0]

\* no assignment yet for a coefficient whose dct_i and median are the given
\* field elements; accepted collects the bits for which the prover has
\* exhibited a satisfying assignment
UnsetAsg(dct, median) ==
    [set |-> FALSE, dct |-> dct, median |-> median, bit |-> 0, w |-> ZeroSlot,
     accepted |-> {}]

NoAsg == UnsetAsg(0, 0)

\* no bit vector extracted yet from the hashes hash and other
UnsetPack(hash, other) ==
    [hash |-> hash, other |-> other, inputs |-> <<>>, other_inputs |-> <<>>,
     instance |-> <<>>]

NoPack == UnsetPack(ZeroHash, ZeroHash)

\* no DCT computed yet for the pixel vector
UnsetDct(pixels) == [pixels |-> pixels, output |-> <<>>, exprs |-> <<>>]

NoDct == UnsetDct(<<>>)

\* threads of the process that call dct_coefficients, and calls per thread
MaxThreads == 3
MaxCalls == 2
Threads == 1 .. MaxThreads

\* snark.rs:49: the closure's local `table` before its loops
ZeroTable == [row \in 1 .. DCT_EDGE |-> [col \in 1 .. BUFFER_EDGE |-> 0]]

\* snark.rs:47: `static TABLE: OnceLock<..> = OnceLock::new()` and threads that
\* have not called yet.  state and cell are the OnceLock's completion state
\* and slot, stores counts the writes to the slot; per thread: where it is
\* in its call, the closure's local table and next row, the table its last
\* call returned, how that call got it, and the calls it has finished
NoOnce ==
    [state  |-> "Incomplete",
     cell   |-> <<>>,
     stores |-> 0,
     tpc    |-> [t \in Threads |-> "idle"],
     local  |-> [t \in Threads |-> [table |-> ZeroTable, row |-> 0]],
     seen   |-> [t \in Threads |-> <<>>],
     path   |-> [t \in Threads |-> "none"],
     calls  |-> [t \in Threads |-> 0]]

\* a Regime A session before TtpSetup::setup; the Option fields are sequences
\* of length 0 or 1
NoRegime ==
    [stage |-> "start", setup |-> <<>>, query |-> <<>>, sent |-> <<>>,
     received |-> <<>>, decision |-> "none"]

\* the parts of the state that a specification does not use stay as they are
PackAtRest == pack = NoPack
DctAtRest == dctrun = NoDct
OnceAtRest == once = NoOnce
RegimeAtRest == ra = NoRegime
SessionAtRest == pc = "rest" /\ res = NoOutcome /\ vres = NoVerify /\ asg = NoAsg

AsideAtRest ==
    /\ res2 = NoOutcome
    /\ PackAtRest
    /\ DctAtRest
    /\ OnceAtRest
    /\ RegimeAtRest

\* the proofs a verifier may be handed
ProofPool ==
    {Garbage}
    \cup (IF res.proof # <<>>
          THEN {res.proof[1], [res.proof[1] EXCEPT !.key = OtherSnark.proving_key.id]}
          ELSE {})

\* the public-input vectors a verifier may be handed
InputPool ==
    LET base == IF res.public_inputs # <<>> THEN res.public_inputs[1]
                ELSE PublicInputs(ZeroHash)
    IN  { base, FlipInput(base, 1), FlipInput(base, Len(base)),
          PublicInputs(ZeroHash), SubSeq(base, 1, Len(base) - 1),
          Append(base, 0), <<>> }

\* the verifying keys a verifier may be handed: the facade's own, and keys of
\* other setups with commitment vectors of any length
KeyLens == {0, 1, DCT_VALUE_COUNT, DCT_VALUE_COUNT + 1, DCT_VALUE_COUNT + 2}
KeyPool ==
    {Snark.verifying_key}
    \cup {[id |-> OtherSnark.verifying_key.id, gamma_abc_len |-> n] : n \in KeyLens}

---------------------------------------------------------------------------
(* The state machine, as the callers drive it (main.rs, the examples): at   *)
(* most one prove call, then one verify call.                              *)

Init ==
    /\ pc = "init"
    /\ res = NoOutcome
    /\ vres = NoVerify
    /\ asg = NoAsg
    /\ AsideAtRest

CreateProof ==
    /\ pc = "init"
    /\ \E image \in Images \cup {Undecodable}, rng \in Seeds, debug_assertions \in BOOLEAN :
         \E target_hash \in Targets(image) :
            res' = create_proof(Snark, image, target_hash, rng, debug_assertions)
    /\ pc' = "proved"
    /\ UNCHANGED <<vres, asg, aside>>

VerifyProof ==
    /\ pc \in {"init", "proved"}
    /\ pc' = "verified"
    /\ \E proof \in ProofPool, public_inputs \in InputPool, overflow_checks \in BOOLEAN :
         vres' = [api |-> "verify_proof", vk |-> Snark.verifying_key, proof |-> proof,
                  public_inputs |-> public_inputs,
                  out |-> verify_proof(Snark, proof, public_inputs, overflow_checks)]
    /\ UNCHANGED <<res, asg, aside>>

VerifyWithKey ==
    /\ pc \in {"init", "proved"}
    /\ pc' = "verified"
    /\ \E vk \in KeyPool, proof \in ProofPool, public_inputs \in InputPool,
          overflow_checks \in BOOLEAN :
         vres' = [api |-> "verify_with_key", vk |-> vk, proof |-> proof,
                  public_inputs |-> public_inputs,
                  out |-> verify_with_key(vk, proof, public_inputs, overflow_checks)]
    /\ UNCHANGED <<res, asg, aside>>

Next == CreateProof \/ VerifyProof \/ VerifyWithKey

Spec == Init /\ [][Next]_vars

---------------------------------------------------------------------------
(* A prover who builds the circuit assignment itself.  PDQHashCircuit and  *)
(* its fields are public, and a prover holding the proving key may assign  *)
(* any field element to any witness variable; Groth16 yields a proof that  *)
(* verifies exactly for the assignments that satisfy the constraints.      *)
(* The constraints of different coefficients share only the pixels and the *)
(* median, so one coefficient is followed, for fixed pixels and median.    *)

\* how many of the leading coefficients are followed
MaxGadgetIdx == 2

\* (dct_i, median) as the circuit sees them for the pixels and medians above
GadgetInputs ==
    { << CircuitDct([n \in 1 .. (BUFFER_EDGE * BUFFER_EDGE) |->
                        field_from_i64(quantize_buffer(buf)[n])])[i],
         field_from_i64(AsI64(ScaleRound(med, FINAL_SCALE))) >> :
      buf \in Buffers, med \in Medians, i \in 1 .. MaxGadgetIdx }

U64 == 0 .. (2 ^ WORD_BITS - 1)

\* the prover assigns bit and slots w that satisfy the gadget of the coefficient.
\* float_diff and neg are written as the two linear constraints determine them
\* from the other slots; every other slot ranges over all its values
AssignWith(bit) ==
    \E corr_pos \in U64 :
      /\ CorrRangeOk(corr_pos)
      /\ \E corr_neg \in U64 :
           /\ CorrRangeOk(corr_neg)
           /\ \E pos \in Fr :
                LET float_diff == FSub(FSub(asg.dct, asg.median),
                                       FSub(CorrFp(corr_pos), CorrFp(corr_neg)))
                    neg        == FSub(pos, float_diff)
                IN  /\ FMul(pos, neg) = 0
                    /\ FMul(bit, neg) = 0
                    /\ FMul(FSub(1, bit), pos) = 0
                    /\ \E inv \in Fr :
                         LET w == [pos |-> pos, neg |-> neg, inv |-> inv,
                                   float_diff |-> float_diff,
                                   corr_pos |-> corr_pos, corr_neg |-> corr_neg]
                         IN  /\ GadgetOk(asg.dct, asg.median, bit, w)
                             /\ asg' = [asg EXCEPT !.set = TRUE, !.bit = bit, !.w = w,
                                                   !.accepted = @ \cup {bit}]

InitGadget ==
    /\ pc = "gadget"
    /\ res = NoOutcome
    /\ vres = NoVerify
    /\ asg \in {UnsetAsg(g[1], g[2]) : g \in GadgetInputs}
    /\ AsideAtRest

Assign ==
    /\ ~asg.set
    /\ \E bit \in {0, 1} : AssignWith(bit)
    /\ UNCHANGED <<pc, res, vres, aside>>

NextGadget == Assign

SpecGadget == InitGadget /\ [][NextGadget]_vars

---------------------------------------------------------------------------
(* The same prover, starting from the honest assignment of a coefficient   *)
(* and looking for an assignment of the same coefficient (same pixels,     *)
(* same median) with the other hash bit.                                   *)

\* what create_proof builds for the images above
HonestCircuits ==
    { o.circuit[1] :
        o \in { x \in { create_proof(Snark, image, compute_pdq_state(image).hash, 1, FALSE) :
                          image \in Images } :
                  x.kind = "Ok" /\ x.proof[1].valid } }

\* coefficient idx of an honest circuit, as the synthesiser allocates it
HonestAsg(c, idx) ==
    [set      |-> TRUE,
     dct      |-> CircuitDct([n \in 1 .. Len(c.pixels) |-> field_from_i64(c.pixels[n])])[idx + 1],
     median   |-> field_from_i64(c.median),
     bit      |-> InstanceOf(c.hash)[idx + 1],
     w        |-> SlotOf(c, idx),
     accepted |-> {InstanceOf(c.hash)[idx + 1]}]

InitFlip ==
    /\ pc = "gadget"
    /\ res = NoOutcome
    /\ vres = NoVerify
    /\ asg \in {HonestAsg(c, idx) : c \in HonestCircuits, idx \in 0 .. (DCT_VALUE_COUNT - 1)}
    /\ AsideAtRest

AssignOther ==
    /\ asg.set
    /\ Cardinality(asg.accepted) = 1
    /\ AssignWith(1 - asg.bit)
    /\ UNCHANGED <<pc, res, vres, aside>>

NextFlip == AssignOther

SpecFlip == InitFlip /\ [][NextFlip]_vars

---------------------------------------------------------------------------
(* The two places that turn hash bytes into bits: create_proof, which      *)
(* returns the public-input vector, and generate_constraints, which        *)
(* allocates the public Booleans.  Both are applied to the same hash, and  *)
(* create_proof also to a second hash.                                     *)

\* byte values: none, each single bit, all bits, a mixed pattern
HashByteValues == {0, 1, 2, 4, 8, 16, 32, 64, 128, 255, 165}

\* hashes of PDQ_HASH_LENGTH bytes
HashPool == [1 .. PDQ_HASH_LENGTH -> HashByteValues]

InitPack ==
    /\ SessionAtRest
    /\ res2 = NoOutcome
    /\ pack \in {UnsetPack(h, o) : h \in HashPool, o \in HashPool}
    /\ DctAtRest
    /\ OnceAtRest
    /\ RegimeAtRest

\* snark.rs:362-366
ExtractBits ==
    /\ pack.inputs = <<>>
    /\ pack' = [pack EXCEPT !.inputs = <<PublicInputs(pack.hash)>>,
                            !.other_inputs = <<PublicInputs(pack.other)>>]
    /\ UNCHANGED <<pc, res, vres, asg, res2, dctrun, once, ra>>

\* snark.rs:150-155
AllocateInputs ==
    /\ pack.instance = <<>>
    /\ pack' = [pack EXCEPT !.instance = <<InstanceOf(pack.hash)>>]
    /\ UNCHANGED <<pc, res, vres, asg, res2, dctrun, once, ra>>

NextPack == ExtractBits \/ AllocateInputs

SpecPack == InitPack /\ [][NextPack]_vars

---------------------------------------------------------------------------
(* Two create_proof calls on the same image with the same target hash,     *)
(* each with the randomness its caller hands in.                           *)

\* the image a PDQ state was computed from
ImageOf(outcome) ==
    IF outcome.state = <<>> THEN Undecodable
    ELSE [decodable |-> TRUE,
          buffer64  |-> outcome.state[1].buffer64,
          median    |-> outcome.state[1].median,
          dct16     |-> outcome.state[1].dct16]

CreateProofAgain ==
    /\ pc = "proved"
    /\ \E rng \in Seeds, debug_assertions \in BOOLEAN :
         res2' = create_proof(Snark, ImageOf(res), res.target, rng, debug_assertions)
    /\ pc' = "twice"
    /\ UNCHANGED <<res, vres, asg, pack, dctrun, once, ra>>

NextTwin == CreateProof \/ CreateProofAgain

SpecTwin == Init /\ [][NextTwin]_vars

---------------------------------------------------------------------------
(* The integer DCT computed twice from one pixel vector: off-circuit by    *)
(* compute_dct_fixed and in-circuit as the affine expressions of           *)
(* generate_constraints over the pixel variables.                          *)

\* quantised pixel values of the declared range: with the kernel above the
\* largest coefficient is 16 times the largest pixel and stays inside a word,
\* as 2^55 stays inside 64 bits for the program's kernel and the range 2^20
PixelRange == -1 .. 1

PixelVectors == [1 .. (BUFFER_EDGE * BUFFER_EDGE) -> PixelRange]

InitDct ==
    /\ SessionAtRest
    /\ res2 = NoOutcome
    /\ PackAtRest
    /\ dctrun \in {UnsetDct(p) : p \in PixelVectors}
    /\ OnceAtRest
    /\ RegimeAtRest

\* snark.rs:74-103
ComputeDctFixed ==
    /\ dctrun.output = <<>>
    /\ dctrun' = [dctrun EXCEPT !.output = <<compute_dct_fixed(dctrun.pixels)>>]
    /\ UNCHANGED <<pc, res, vres, asg, res2, pack, once, ra>>

\* snark.rs:157-191: the pixel witnesses and the expressions over them
SynthesizeDct ==
    /\ dctrun.exprs = <<>>
    /\ dctrun' = [dctrun EXCEPT !.exprs =
                    <<CircuitDct([n \in 1 .. Len(dctrun.pixels) |->
                                     field_from_i64(dctrun.pixels[n])])>>]
    /\ UNCHANGED <<pc, res, vres, asg, res2, pack, once, ra>>

NextDct == ComputeDctFixed \/ SynthesizeDct

SpecDct == InitDct /\ [][NextDct]_vars

---------------------------------------------------------------------------
(* dct_coefficients called from several threads (snark.rs:46-59).          *)
(* OnceLock::get_or_init is modelled by its contract: a caller that finds  *)
(* the cell complete returns the stored value; otherwise Once::call lets   *)
(* the one caller that finds it incomplete run the closure and makes the   *)
(* others wait until the value is stored and the cell marked complete.     *)

\* a cell that lets every caller who finds no value yet run the closure
MayRunInitUnlocked(state) == state # "Complete"

\* Once::call: only the caller that moves the cell out of Incomplete runs the
\* closure
MayRunInit(state) == state = "Incomplete"

\* snark.rs:48: get_or_init, the check for a stored value
GetOrInit(t) ==
    /\ once.tpc[t] = "idle"
    /\ once.calls[t] < MaxCalls
    /\ once' = IF once.state = "Complete"
               THEN [once EXCEPT !.tpc[t] = "got", !.seen[t] = once.cell,
                                 !.path[t] = "fast"]
               ELSE [once EXCEPT !.tpc[t] = "slow"]

\* snark.rs:48: get_or_init, no value was found: run the closure, or wait for
\* the thread that runs it, or take the value stored in between
CallOnce(t) ==
    /\ once.tpc[t] = "slow"
    /\ once' = IF MayRunInit(once.state)
               THEN [once EXCEPT !.state = "Running", !.tpc[t] = "init",
                                 !.local[t] = [table |-> ZeroTable, row |-> 0]]
               ELSE IF once.state = "Running"
                    THEN [once EXCEPT !.tpc[t] = "waiting"]
                    ELSE [once EXCEPT !.tpc[t] = "got", !.seen[t] = once.cell,
                                      !.path[t] = "late"]

\* snark.rs:50-55: one pass of the outer loop of the closure
FillRow(t) ==
    /\ once.tpc[t] = "init"
    /\ once.local[t].row < DCT_EDGE
    /\ once' = [once EXCEPT
                  !.local[t].table[once.local[t].row + 1] =
                      [col \in 1 .. BUFFER_EDGE |->
                          ScaleRound(DCT_MATRIX[once.local[t].row + 1][col], DCT_FIXED_SCALE)],
                  !.local[t].row = @ + 1]

\* snark.rs:57: the closure returns its table, which is written to the slot
WriteSlot(t) ==
    /\ once.tpc[t] = "init"
    /\ once.local[t].row = DCT_EDGE
    /\ once' = [once EXCEPT !.cell = <<once.local[t].table>>, !.stores = @ + 1,
                            !.tpc[t] = "written"]

\* the cell is marked complete and the initialising caller gets its reference
SetComplete(t) ==
    /\ once.tpc[t] = "written"
    /\ once' = [once EXCEPT !.state = "Complete", !.tpc[t] = "got",
                            !.seen[t] = once.cell, !.path[t] = "init"]

\* a waiting caller continues once the cell is complete
Wake(t) ==
    /\ once.tpc[t] = "waiting"
    /\ once.state = "Complete"
    /\ once' = [once EXCEPT !.tpc[t] = "got", !.seen[t] = once.cell, !.path[t] = "wait"]

\* dct_coefficients returns the reference to its caller
Return(t) ==
    /\ once.tpc[t] = "got"
    /\ once' = [once EXCEPT !.tpc[t] = "idle", !.calls[t] = @ + 1]

InitOnce ==
    /\ SessionAtRest
    /\ res2 = NoOutcome
    /\ PackAtRest
    /\ DctAtRest
    /\ once = NoOnce
    /\ RegimeAtRest

NextOnce ==
    /\ \E t \in Threads :
          \/ GetOrInit(t)
          \/ CallOnce(t)
          \/ FillRow(t)
          \/ WriteSlot(t)
          \/ SetComplete(t)
          \/ Wake(t)
          \/ Return(t)
    /\ UNCHANGED <<pc, res, vres, asg, res2, pack, dctrun, ra>>

SpecOnce == InitOnce /\ [][NextOnce]_vars

---------------------------------------------------------------------------
(* Regime A (regime_a.rs): the masked threshold test between a client and  *)
(* the server, over the prime field of DEFAULT_PRIME elements.             *)

\* regime_a.rs:11, 2^61 - 1 in the source
DEFAULT_PRIME == 7
\* regime_a.rs:12
DEFAULT_GENERATOR == 5

\* regime_a.rs:43-45
mod_add(a, b, p) == (a + b) % p

\* regime_a.rs:47-53
mod_sub(a, b, p) == IF a >= b THEN a - b ELSE ((a + p) - b) % p

\* regime_a.rs:55-57
mod_mul(a, b, p) == (a * b) % p

\* regime_a.rs:59-63: DefaultHasher with its fixed keys, a function of the
\* value; taken as collision-free
hash64(value) == <<"hash64", value>>

\* regime_a.rs:34-36, x being the word next_u64 returned
next_field_nonzero(x, p) == 1 + (x % (p - 1))

\* regime_a.rs:38-40
next_field(x, p) == x % p

\* regime_a.rs:76-87; the assertions hold for the parameters used below
RegimeAParams_new(ell, b_chunks, epsilon) ==
    [p |-> DEFAULT_PRIME, g |-> DEFAULT_GENERATOR, ell |-> ell, b_chunks |-> b_chunks,
     epsilon |-> epsilon]

\* regime_a.rs:89-91
lambda(params) == params.ell * params.b_chunks

RECURSIVE FoldAdd(_, _, _)
\* regime_a.rs:121-123: fold(0, |acc, r| mod_add(acc, r, p)) over the first n
FoldAdd(r_masks, n, p) ==
    IF n = 0 THEN 0 ELSE mod_add(FoldAdd(r_masks, n - 1, p), r_masks[n], p)

\* regime_a.rs:105-132.  XorShift64 turns the seed into a stream of words;
\* draws is that stream: first one word per database item, then one per chunk
TtpSetup_setup(db, params, draws) ==
    LET gamma   == [i \in 1 .. Len(db) |-> next_field_nonzero(draws[i], params.p)]
        r_masks == [b \in 1 .. params.b_chunks |->
                       next_field(draws[Len(db) + b], params.p)]
    IN  [params  |-> params,
         gamma   |-> gamma,
         r_masks |-> r_masks,
         r_sum   |-> FoldAdd(r_masks, params.b_chunks, params.p),
         db      |-> db]

\* regime_a.rs:134-137, b counted from 0
chunk(ttp, d, b) ==
    SubSeq(d, b * ttp.params.ell + 1, b * ttp.params.ell + ttp.params.ell)

\* regime_a.rs:139-141: zip stops at the shorter slice
hamming_chunk(x, y) ==
    LET n == IF Len(x) <= Len(y) THEN Len(x) ELSE Len(y)
    IN  Cardinality({i \in 1 .. n : x[i] # y[i]})

RECURSIVE ZFold(_, _, _)
\* regime_a.rs:147-150: the fold over t = epsilon ..= t_last, starting from 1
ZFold(ttp, distance, t_last) ==
    IF t_last < ttp.params.epsilon THEN 1
    ELSE LET p    == ttp.params.p
             term == mod_sub(distance % p, t_last % p, p)
         IN  mod_mul(ZFold(ttp, distance, t_last - 1), term, p)

\* regime_a.rs:143-151
z_poly(ttp, distance) == ZFold(ttp, distance, ttp.params.ell)

RECURSIVE SFold(_, _, _, _)
\* regime_a.rs:155-159: the fold over the first n database items
SFold(ttp, query, chunk_idx, n) ==
    IF n = 0 THEN 0
    ELSE LET p == ttp.params.p
             d == hamming_chunk(query, chunk(ttp, ttp.db[n], chunk_idx))
             z == z_poly(ttp, d)
         IN  mod_add(SFold(ttp, query, chunk_idx, n - 1),
                     mod_mul(ttp.gamma[n], z, p), p)

\* a sum that leaves the gamma weights out
s_for_chunk_unweighted(ttp, query, chunk_idx) ==
    FoldAdd([n \in 1 .. Len(ttp.db) |->
                z_poly(ttp, hamming_chunk(query, chunk(ttp, ttp.db[n], chunk_idx)))],
            Len(ttp.db), ttp.params.p)

\* regime_a.rs:153-160
s_for_chunk(ttp, query, chunk_idx) == SFold(ttp, query, chunk_idx, Len(ttp.db))

\* regime_a.rs:162-168
masked_exponent(ttp, query, chunk_idx) ==
    mod_add(s_for_chunk(ttp, query, chunk_idx), ttp.r_masks[chunk_idx + 1],
            ttp.params.p)

RECURSIVE MaskedTotal(_, _, _)
\* regime_a.rs:202-207 and, for the server, 250-255: the loop over the first
\* n chunks
MaskedTotal(ttp, bits, n) ==
    IF n = 0 THEN 0
    ELSE mod_add(MaskedTotal(ttp, bits, n - 1),
                 masked_exponent(ttp, chunk(ttp, bits, n - 1), n - 1),
                 ttp.params.p)

\* regime_a.rs:194-223; the assertions hold for the queries used below
client_submit(ttp, d, msgid) ==
    LET c_d       == hash64(d)
        root      == hash64(c_d)
        res_total == MaskedTotal(ttp, d, ttp.params.b_chunks)
    IN  [msgid     |-> msgid,
         root      |-> root,
         c_d       |-> c_d,
         res_total |-> res_total,
         proof     |-> [msgid           |-> msgid,
                        transcript_hash |-> hash64(<<msgid, root, c_d, res_total>>),
                        witness_bits    |-> d]]

\* a server that does not take the masks off before it decides
server_verify_and_decide_masked(ttp, submission) ==
    LET proof == submission.proof
    IN  IF proof.msgid # submission.msgid THEN "None"
        ELSE IF ~(\A i \in 1 .. Len(proof.witness_bits) : proof.witness_bits[i] \in {0, 1})
        THEN "None"
        ELSE IF hash64(proof.witness_bits) # submission.c_d THEN "None"
        ELSE IF hash64(submission.c_d) # submission.root THEN "None"
        ELSE IF MaskedTotal(ttp, proof.witness_bits, ttp.params.b_chunks)
                    # submission.res_total
        THEN "None"
        ELSE IF hash64(<<submission.msgid, submission.root, submission.c_d,
                         submission.res_total>>) # proof.transcript_hash
        THEN "None"
        ELSE IF submission.res_total # 0 THEN "Some(Yes)" ELSE "Some(No)"

\* regime_a.rs:226-278
server_verify_and_decide(ttp, submission) ==
    LET proof == submission.proof
    IN  IF proof.msgid # submission.msgid THEN "None"
        ELSE IF ~(\A i \in 1 .. Len(proof.witness_bits) : proof.witness_bits[i] \in {0, 1})
        THEN "None"
        ELSE IF hash64(proof.witness_bits) # submission.c_d THEN "None"
        ELSE IF hash64(submission.c_d) # submission.root THEN "None"
        ELSE IF MaskedTotal(ttp, proof.witness_bits, ttp.params.b_chunks)
                    # submission.res_total
        THEN "None"
        ELSE IF hash64(<<submission.msgid, submission.root, submission.c_d,
                         submission.res_total>>) # proof.transcript_hash
        THEN "None"
        ELSE IF mod_sub(submission.res_total, ttp.r_sum, ttp.params.p) # 0
             THEN "Some(Yes)"
             ELSE "Some(No)"

\* parameters: chunks of two bits with every threshold, and one chunk of three
ParamPool ==
    {RegimeAParams_new(2, 2, epsilon) : epsilon \in 0 .. 2}
    \cup {RegimeAParams_new(3, 1, 2)}

\* binary vectors of length n: all zero, all one, a single one
ItemPool(n) ==
    { [i \in 1 .. n |-> 0], [i \in 1 .. n |-> 1], [i \in 1 .. n |-> IF i = 2 THEN 1 ELSE 0] }

\* databases of up to MaxDbLen items
MaxDbLen == 2
DbPool(n) == UNION {[1 .. k -> ItemPool(n)] : k \in 1 .. MaxDbLen}

\* queries: the items, and vectors that agree with them on part of a chunk
QueryPool(n) ==
    ItemPool(n)
    \cup { [i \in 1 .. n |-> IF i = 1 THEN 1 ELSE 0],
           [i \in 1 .. n |-> IF i = n THEN 0 ELSE 1],
           [i \in 1 .. n |-> IF i <= 2 THEN 1 ELSE 0] }

\* words next_u64 returns: they give gamma 1, 3, 6 and (wrapping) 1 again
GammaWords == {0, 2, 5, 6}
\* words that give the masks 0 and 2
MaskWords == {0, 9}

\* the streams the generator may produce for a database of k items
DrawPool(k, b_chunks) ==
    { g \o m : g \in [1 .. k -> GammaWords], m \in [1 .. b_chunks -> MaskWords] }

\* what reaches the server: the submission as sent, or one changed on the way
Tampered(submission) ==
    { submission,
      [submission EXCEPT !.res_total = (@ + 1) % DEFAULT_PRIME],
      [submission EXCEPT !.proof.msgid = @ + 1] }

InitRegime ==
    /\ SessionAtRest
    /\ res2 = NoOutcome
    /\ PackAtRest
    /\ DctAtRest
    /\ OnceAtRest
    /\ ra = NoRegime

\* TtpSetup::ttp
RegimeSetup ==
    /\ ra.stage = "start"
    /\ \E params \in ParamPool :
         \E db \in DbPool(lambda(params)) :
           \E draws \in DrawPool(Len(db), params.b_chunks) :
              ra' = [ra EXCEPT !.stage = "ttp",
                               !.setup = <<TtpSetup_setup(db, params, draws)>>]
    /\ UNCHANGED <<pc, res, vres, asg, res2, pack, dctrun, once>>

\* client_submit
ClientSubmit ==
    /\ ra.stage = "ttp"
    /\ \E d \in QueryPool(lambda(ra.setup[1].params)) :
         ra' = [ra EXCEPT !.stage = "submitted",
                          !.query = <<d>>,
                          !.sent = <<client_submit(ra.setup[1], d, 42)>>]
    /\ UNCHANGED <<pc, res, vres, asg, res2, pack, dctrun, once>>

\* server_verify_and_decide
ServerVerifyAndDecide ==
    /\ ra.stage = "submitted"
    /\ \E submission \in Tampered(ra.sent[1]) :
         ra' = [ra EXCEPT !.stage = "decided",
                          !.received = <<submission>>,
                          !.decision = server_verify_and_decide(ra.setup[1], submission)]
    /\ UNCHANGED <<pc, res, vres, asg, res2, pack, dctrun, once>>

NextRegime == RegimeSetup \/ ClientSubmit \/ ServerVerifyAndDecide

SpecRegime == InitRegime /\ [][NextRegime]_vars

---------------------------------------------------------------------------
(* Properties.                                                             *)

\* snark.rs:311-314: delta_i = (D[i] - median_int) - float_diff_i of the PDQ
\* state, for the 0-based coefficient idx, as integers
SlackDelta(state, idx) ==
    (compute_dct_fixed(quantize_buffer(state.buffer64))[idx + 1]
        - ScaleRound(state.median, FINAL_SCALE))
    - RoundDiv((state.dct16[idx + 1] - state.median) * FINAL_SCALE, FLOAT_DEN)

Abs(x) == IF x < 0 THEN -x ELSE x

\* the coefficients whose slack exceeds the tolerance
ExceedIdx(state) ==
    {idx \in 0 .. (DCT_VALUE_COUNT - 1) : Abs(SlackDelta(state, idx)) > CORRECTION_TOLERANCE}

Lowest(S) == CHOOSE x \in S : \A y \in S : x <= y

VerifyReturned == vres.api # "none"

\* C1: whenever create_proof returns Ok, the circuit it built is satisfied by
\* its witness, and verify_proof on the returned proof and public inputs
\* returns Ok(true).
C1_HonestCompleteness ==
    res.kind = "Ok" =>
        /\ Satisfied(res.circuit[1])
        /\ ( /\ vres.api = "verify_proof"
             /\ vres.proof = res.proof[1]
             /\ vres.public_inputs = res.public_inputs[1] )
           => vres.out = "Ok(true)"

\* C2: an honest proof for hash H, verified under the same key against
\* PDQ_HASH_BITS public inputs (each 0 or 1) that encode another hash, gives
\* Ok(false), never an error.
C2_Binding ==
    ( /\ res.kind = "Ok"
      /\ VerifyReturned
      /\ vres.vk = Snark.verifying_key
      /\ vres.proof = res.proof[1]
      /\ Len(vres.public_inputs) = PDQ_HASH_BITS
      /\ \A n \in 1 .. PDQ_HASH_BITS : vres.public_inputs[n] \in {0, 1}
      /\ vres.public_inputs # PublicInputs(res.state[1].hash) )
    => vres.out = "Ok(false)"

\* C2 witness: a proof that does verify for its own hash was checked against
\* that hash with one bit flipped, and was rejected
C2_Witness ==
    /\ res.kind = "Ok"
    /\ res.proof[1].valid
    /\ VerifyReturned
    /\ vres.vk = Snark.verifying_key
    /\ vres.proof = res.proof[1]
    /\ vres.public_inputs = FlipInput(PublicInputs(res.state[1].hash), 1)
    /\ vres.out = "Ok(false)"

\* C3: in every assignment that satisfies the gadget of a coefficient, the
\* public bit is 1 exactly when float_diff, read as a signed integer, is > 0.
C3_SignAgreement ==
    asg.set => (asg.bit = 1 <=> Signed(asg.w.float_diff) > 0)

\* C4: for fixed pixels and median, all satisfying assignments of a
\* coefficient carry the same hash bit.
C4_NoSignFlip ==
    Cardinality(asg.accepted) <= 1

\* C5: a target hash that differs from the state's hash makes create_proof
\* return HashMismatch with no circuit, proof or public inputs, whatever the
\* coefficients' slack is.
C5_HashMismatch ==
    (res.state # <<>> /\ res.target # res.state[1].hash) =>
        /\ res.kind = "HashMismatch"
        /\ res.circuit = <<>>
        /\ res.proof = <<>>
        /\ res.public_inputs = <<>>

\* C5 witness: HashMismatch was returned for a state in which a coefficient
\* also exceeds the tolerance
C5_Witness ==
    /\ res.kind = "HashMismatch"
    /\ ExceedIdx(res.state[1]) # {}

\* C6: with a matching target hash, create_proof fails with ToleranceExceeded
\* exactly when some |delta_i| > CORRECTION_TOLERANCE; it stops at the lowest
\* such index and returns no proof.
C6_ToleranceExceeded ==
    (res.state # <<>> /\ res.target = res.state[1].hash) =>
        /\ (res.kind = "ToleranceExceeded") <=> (ExceedIdx(res.state[1]) # {})
        /\ res.kind = "ToleranceExceeded" =>
              /\ res.fail_idx = Lowest(ExceedIdx(res.state[1]))
              /\ res.proof = <<>>
              /\ res.public_inputs = <<>>

\* C6 witness: two coefficients exceed the tolerance, the lower of them is not
\* the first coefficient, and the call failed there
C6_Witness ==
    /\ res.kind = "ToleranceExceeded"
    /\ Cardinality(ExceedIdx(res.state[1])) >= 2
    /\ res.fail_idx >= 1

\* C7: every slack pair of a witness the builder completes lies in
\* [0, 2^CORRECTION_BITS), has corr_pos - corr_neg = integer_diff - float_diff
\* and corr_pos * corr_neg = 0.
C7_SlackRange ==
    res.circuit # <<>> =>
        \A i \in 1 .. DCT_VALUE_COUNT :
            LET corr_pos == res.circuit[1].corr_pos[i]
                corr_neg == res.circuit[1].corr_neg[i]
            IN  /\ 0 <= corr_pos /\ corr_pos < 2 ^ CORRECTION_BITS
                /\ 0 <= corr_neg /\ corr_neg < 2 ^ CORRECTION_BITS
                /\ corr_pos - corr_neg = SlackDelta(res.state[1], i - 1)
                /\ corr_pos * corr_neg = 0

\* C8: a public-input vector of any length other than PDQ_HASH_BITS gives
\* PublicInputLength, whatever the key and the proof are.
C8_PublicInputLength ==
    (VerifyReturned /\ Len(vres.public_inputs) # PDQ_HASH_BITS) =>
        vres.out = "PublicInputLength"

\* C8 witness: one input too few together with a key whose commitment vector
\* is empty
C8_Witness ==
    /\ vres.api = "verify_with_key"
    /\ Len(vres.public_inputs) = PDQ_HASH_BITS - 1
    /\ vres.vk.gamma_abc_len = 0
    /\ vres.out = "PublicInputLength"

\* C9: PDQ_HASH_BITS public inputs and a key whose commitment vector has any
\* length other than PDQ_HASH_BITS + 1 give the KeyShape error, not a panic.
C9_KeyShape ==
    ( /\ VerifyReturned
      /\ Len(vres.public_inputs) = PDQ_HASH_BITS
      /\ vres.vk.gamma_abc_len # PDQ_HASH_BITS + 1 )
    => vres.out = "KeyShape"

\* C10: with PDQ_HASH_BITS public inputs and a commitment vector of length
\* PDQ_HASH_BITS + 1, verification returns Ok(true) or Ok(false) whatever the
\* proof; anything else is returned only for inputs of the wrong lengths.
C10_NoErrorOnInvalidProof ==
    VerifyReturned =>
        /\ ( /\ Len(vres.public_inputs) = PDQ_HASH_BITS
             /\ vres.vk.gamma_abc_len = PDQ_HASH_BITS + 1 )
           => vres.out \in {"Ok(true)", "Ok(false)"}
        /\ vres.out \notin {"Ok(true)", "Ok(false)"}
           => \/ Len(vres.public_inputs) # PDQ_HASH_BITS
              \/ vres.vk.gamma_abc_len # PDQ_HASH_BITS + 1

\* C10 witness: a proof nobody made, under a well-formed key of another
\* setup, was rejected with Ok(false)
C10_Witness ==
    /\ vres.api = "verify_with_key"
    /\ vres.proof = Garbage
    /\ vres.vk.id # Snark.verifying_key.id
    /\ Len(vres.public_inputs) = PDQ_HASH_BITS
    /\ vres.vk.gamma_abc_len = PDQ_HASH_BITS + 1
    /\ vres.out = "Ok(false)"

\* the inverse of the public-input rule: bit i goes to position i mod 8 of
\* byte PDQ_HASH_LENGTH - 1 - i/8
Repack(bits) ==
    [b \in 1 .. (Len(bits) \div 8) |->
        Sum([k \in 0 .. 7 |-> bits[((Len(bits) \div 8) - b) * 8 + k + 1] * (2 ^ k)], 8)]

\* C11: the public-input vector create_proof returns has PDQ_HASH_BITS
\* elements; element i is the field element 0 or 1 equal to
\* (hash[PDQ_HASH_LENGTH - 1 - i/8] >> (i % 8)) & 1, and equal to the Boolean
\* the circuit allocates as its i-th public input.
C11_BitOrder ==
    pack.inputs # <<>> =>
        /\ Len(pack.inputs[1]) = PDQ_HASH_BITS
        /\ \A i \in 0 .. (PDQ_HASH_BITS - 1) :
              /\ pack.inputs[1][i + 1] \in {0, 1}
              /\ pack.inputs[1][i + 1] =
                    (pack.hash[PDQ_HASH_LENGTH - (i \div 8)] \div (2 ^ (i % 8))) % 2
              /\ pack.instance # <<>> => pack.inputs[1][i + 1] = pack.instance[1][i + 1]

\* C11 witness: both sides have produced their bits for a hash whose two
\* bytes differ and are not palindromes
C11_Witness ==
    /\ pack.inputs # <<>>
    /\ pack.instance # <<>>
    /\ pack.hash = <<1, 165>>

\* C12: repacking the public-input vector by the inverse rule gives the
\* original hash bytes, and two different hashes never give the same vector.
C12_RoundTrip ==
    pack.inputs # <<>> =>
        /\ Repack(pack.inputs[1]) = pack.hash
        /\ pack.hash # pack.other => pack.inputs[1] # pack.other_inputs[1]

\* C12 witness: two hashes that differ in one bit of the last byte only
C12_Witness ==
    /\ pack.inputs # <<>>
    /\ pack.hash = <<165, 0>>
    /\ pack.other = <<165, 128>>
    /\ Repack(pack.inputs[1]) = <<165, 0>>
    /\ pack.inputs[1] # pack.other_inputs[1]


\* C13: two create_proof calls on the same PDQ state build the same circuit
\* (pixels, median, pos, neg, inverses, float_diffs, corr_pos, corr_neg) and
\* return the same public inputs, whatever randomness each call is given.
C13_WitnessDeterminism ==
    pc = "twice" =>
        /\ (res.circuit # <<>> /\ res2.circuit # <<>>) => res2.circuit = res.circuit
        /\ (res.kind = "Ok" /\ res2.kind = "Ok") => res2.public_inputs = res.public_inputs

\* C13 witness: two calls with different randomness returned the same
\* circuit and public inputs with different proofs, for a witness that has a
\* zero difference
C13_Witness ==
    /\ pc = "twice"
    /\ res.kind = "Ok"
    /\ res2.kind = "Ok"
    /\ res2.proof # res.proof
    /\ res2.circuit = res.circuit
    /\ res2.public_inputs = res.public_inputs
    /\ \E i \in 1 .. DCT_VALUE_COUNT : res.circuit[1].float_diffs[i] = 0


\* the Hamming distance between chunk b (from 0) of the query and of database
\* item i, counted position by position
ChunkDistance(ttp, query, b, i) ==
    Cardinality({k \in 1 .. ttp.params.ell :
                    query[b * ttp.params.ell + k] # ttp.db[i][b * ttp.params.ell + k]})

\* the (chunk, item) pairs closer than epsilon
ClosePairs(ttp, query) ==
    {pair \in (0 .. (ttp.params.b_chunks - 1)) \X (1 .. Len(ttp.db)) :
        ChunkDistance(ttp, query, pair[1], pair[2]) < ttp.params.epsilon}

RECURSIVE ZInt(_, _, _)
\* the product of (distance - t) for t = epsilon .. t_last over the integers
ZInt(distance, epsilon, t_last) ==
    IF t_last < epsilon THEN 1 ELSE ZInt(distance, epsilon, t_last - 1) * (distance - t_last)

RECURSIVE WeightedSum(_, _, _)
\* the sum over the first n (chunk, item) pairs, in row-major order, of
\* gamma_i * Z(distance of the pair) over the integers
WeightedSum(ttp, query, n) ==
    IF n = 0 THEN 0
    ELSE LET b == (n - 1) \div Len(ttp.db)
             i == ((n - 1) % Len(ttp.db)) + 1
         IN  WeightedSum(ttp, query, n - 1)
             + ttp.gamma[i] * ZInt(ChunkDistance(ttp, query, b, i),
                                     ttp.params.epsilon, ttp.params.ell)

\* the server decided on the submission exactly as the client sent it
HonestlyDecided ==
    /\ ra.stage = "decided"
    /\ ra.received = ra.sent

\* C14: when every chunk of the query is at Hamming distance >= epsilon from
\* the corresponding chunk of every database item, the server accepts the
\* honest submission and decides Some(No).
C14_FarQueryNo ==
    (HonestlyDecided /\ ClosePairs(ra.setup[1], ra.query[1]) = {})
        => ra.decision = "Some(No)"

\* C14 witness: a far query against two items with a threshold above zero and
\* masks that do not sum to zero
C14_Witness ==
    /\ HonestlyDecided
    /\ ClosePairs(ra.setup[1], ra.query[1]) = {}
    /\ Len(ra.setup[1].db) = 2
    /\ ra.setup[1].params.epsilon > 0
    /\ ra.setup[1].r_sum # 0
    /\ ra.decision = "Some(No)"

\* C15 as claimed: when some chunk of the query is at Hamming distance
\* < epsilon from the corresponding chunk of some database item, the server
\* decides Some(Yes) on the honest submission, for every ttp.
C15_CloseQueryYes ==
    (HonestlyDecided /\ ClosePairs(ra.setup[1], ra.query[1]) # {})
        => ra.decision = "Some(Yes)"

\* C15 amended: on the honest submission the server decides Some(Yes) exactly
\* when the sum of gamma_i * Z(d) over all (chunk, item) pairs is not zero
\* modulo p, and Some(No) otherwise; this sum is not zero whenever exactly one
\* pair is closer than epsilon, and it is zero when none is.
C15_YesUnlessCancelled ==
    HonestlyDecided =>
        LET ttp == ra.setup[1]
            total == WeightedSum(ttp, ra.query[1], ttp.params.b_chunks * Len(ttp.db))
            close == Cardinality(ClosePairs(ttp, ra.query[1]))
        IN  /\ ra.decision = IF total % ttp.params.p # 0 THEN "Some(Yes)" ELSE "Some(No)"
            /\ close = 1 => ra.decision = "Some(Yes)"
            /\ close = 0 => ra.decision = "Some(No)"

\* C15 witness: a query with several close pairs and the decision Some(Yes)
C15_Witness ==
    /\ HonestlyDecided
    /\ Cardinality(ClosePairs(ra.setup[1], ra.query[1])) >= 2
    /\ ra.decision = "Some(Yes)"

\* the double sum  sum_k sum_j K[r][k] * p[k * BUFFER_EDGE + j] * K[c][j]  over
\* the integers, for the 0-based output row r and column c
ExactDct(pixels, r, c) ==
    Sum([k \in 0 .. (BUFFER_EDGE - 1) |->
            Sum([j \in 0 .. (BUFFER_EDGE - 1) |->
                    dct_coefficients[r + 1][k + 1] * pixels[k * BUFFER_EDGE + j + 1]
                        * dct_coefficients[c + 1][j + 1]],
                BUFFER_EDGE)],
        BUFFER_EDGE)

\* the first-pass sum  sum_k K[r][k] * p[k * BUFFER_EDGE + j]  over the integers
ExactRowPass(pixels, r, j) ==
    Sum([k \in 0 .. (BUFFER_EDGE - 1) |->
            dct_coefficients[r + 1][k + 1] * pixels[k * BUFFER_EDGE + j + 1]],
        BUFFER_EDGE)

InI64(x) == -(2 ^ (WORD_BITS - 1)) <= x /\ x < 2 ^ (WORD_BITS - 1)

InI128(x) == -(2 ^ (2 * WORD_BITS - 1)) <= x /\ x < 2 ^ (2 * WORD_BITS - 1)

\* C16: for every pixel vector of the declared range, each value
\* compute_dct_fixed returns is the exact integer double sum, which fits the
\* accumulator and the 64-bit result, and the circuit's expression dct_i
\* is that integer embedded in the field.
C16_DctAgreement ==
    dctrun.output # <<>> =>
        \A r \in 0 .. (DCT_EDGE - 1), c \in 0 .. (DCT_EDGE - 1) :
            LET exact == ExactDct(dctrun.pixels, r, c)
                i     == r * DCT_EDGE + c + 1
            IN  /\ dctrun.output[1][i] = exact
                /\ InI64(exact)
                /\ InI128(exact)
                /\ \A j \in 0 .. (BUFFER_EDGE - 1) : InI128(ExactRowPass(dctrun.pixels, r, j))
                /\ dctrun.exprs # <<>> =>
                      /\ dctrun.exprs[1][i] = field_from_i64(dctrun.output[1][i])
                      /\ Signed(dctrun.exprs[1][i]) = exact

\* C16 witness: both sides computed the DCT of the pixel vector that gives
\* the coefficient of largest magnitude, which is negative
C16_Witness ==
    /\ dctrun.output # <<>>
    /\ dctrun.exprs # <<>>
    /\ \E i \in 1 .. DCT_VALUE_COUNT :
          /\ dctrun.output[1][i] = -16
          /\ dctrun.exprs[1][i] = P - 16

\* C17: in every assignment that satisfies the constraints of a coefficient,
\* corr_pos and corr_neg are integers in [0, 2^CORRECTION_BITS), at most one
\* of them is non-zero, and (dct - median) - float_diff, read as a signed
\* integer, lies strictly between -2^CORRECTION_BITS and 2^CORRECTION_BITS.
C17_SlackBound ==
    asg.set =>
        /\ asg.w.corr_pos \in 0 .. (2 ^ CORRECTION_BITS - 1)
        /\ asg.w.corr_neg \in 0 .. (2 ^ CORRECTION_BITS - 1)
        /\ asg.w.corr_pos = 0 \/ asg.w.corr_neg = 0
        /\ LET slack == Signed(FSub(FSub(asg.dct, asg.median), asg.w.float_diff))
           IN  -(2 ^ CORRECTION_BITS) < slack /\ slack < 2 ^ CORRECTION_BITS

\* C17 witness: a satisfying assignment whose negative slack is the largest
\* the range check admits
C17_Witness ==
    /\ asg.set
    /\ asg.w.corr_neg = 2 ^ CORRECTION_BITS - 1
    /\ Signed(FSub(FSub(asg.dct, asg.median), asg.w.float_diff)) = 1 - 2 ^ CORRECTION_BITS

\* pos_i >= 0, neg_i >= 0, pos_i - neg_i = float_diff_i and pos_i * neg_i = 0
\* for the 1-based coefficient i of circuit c
SplitOk(c, i) ==
    /\ c.pos_diffs[i] >= 0
    /\ c.neg_diffs[i] >= 0
    /\ c.pos_diffs[i] - c.neg_diffs[i] = c.float_diffs[i]
    /\ c.pos_diffs[i] * c.neg_diffs[i] = 0

\* C18 as claimed: in the witness the builder produces, for every coefficient
\* pos >= 0, neg >= 0, pos - neg = float_diff, pos * neg = 0, and exactly one
\* of pos and neg is zero, never both.
C18_ExactlyOneZero ==
    res.circuit # <<>> =>
        \A i \in 1 .. DCT_VALUE_COUNT :
            /\ SplitOk(res.circuit[1], i)
            /\ (res.circuit[1].pos_diffs[i] = 0) # (res.circuit[1].neg_diffs[i] = 0)

\* C18 amended: in the witness the builder produces, for every coefficient
\* pos >= 0, neg >= 0, pos - neg = float_diff, pos * neg = 0, and at least one
\* of pos and neg is zero: exactly one when float_diff is not zero, both when
\* float_diff is zero.
C18_SignSplit ==
    res.circuit # <<>> =>
        \A i \in 1 .. DCT_VALUE_COUNT :
            /\ SplitOk(res.circuit[1], i)
            /\ res.circuit[1].pos_diffs[i] = 0 \/ res.circuit[1].neg_diffs[i] = 0
            /\ (res.circuit[1].pos_diffs[i] = 0 /\ res.circuit[1].neg_diffs[i] = 0)
                  <=> res.circuit[1].float_diffs[i] = 0

\* C18 witness: a witness with a positive, a negative and a zero difference
C18_Witness ==
    /\ res.circuit # <<>>
    /\ \E i \in 1 .. DCT_VALUE_COUNT :
          res.circuit[1].float_diffs[i] > 0 /\ res.circuit[1].pos_diffs[i] > 0
    /\ \E i \in 1 .. DCT_VALUE_COUNT :
          res.circuit[1].float_diffs[i] < 0 /\ res.circuit[1].neg_diffs[i] > 0
    /\ \E i \in 1 .. DCT_VALUE_COUNT :
          /\ res.circuit[1].float_diffs[i] = 0
          /\ res.circuit[1].pos_diffs[i] = 0
          /\ res.circuit[1].neg_diffs[i] = 0

\* C19: in every assignment that satisfies the sign gadget with float_diff = 0
\* the public bit is 0, whatever inv, pos and neg are.
C19_ZeroDiffBit ==
    (asg.set /\ asg.w.float_diff = 0) => asg.bit = 0

\* C19 witness: a satisfying assignment with float_diff = 0 and an inverse
\* slot that is not zero
C19_Witness ==
    /\ asg.set
    /\ asg.w.float_diff = 0
    /\ asg.w.inv # 0
    /\ asg.bit = 0


\* the table is DCT_EDGE rows of BUFFER_EDGE entries, every row filled
FullTable(table) ==
    /\ DOMAIN table = 1 .. DCT_EDGE
    /\ \A row \in 1 .. DCT_EDGE :
          /\ DOMAIN table[row] = 1 .. BUFFER_EDGE
          /\ \A col \in 1 .. BUFFER_EDGE :
                table[row][col] = ScaleRound(DCT_MATRIX[row][col], DCT_FIXED_SCALE)

\* C20, in every state: the table is stored at most once, and every table a
\* call of dct_coefficients has returned is the fully initialised table, the
\* same for all callers.
OnceStoredAndComplete ==
    /\ once.stores <= 1
    /\ \A t \in Threads : once.seen[t] # <<>> => FullTable(once.seen[t][1])
    /\ \A t \in Threads, u \in Threads :
          (once.seen[t] # <<>> /\ once.seen[u] # <<>>) => once.seen[t] = once.seen[u]

\* C20: under any interleaving of the calls, the table is stored at most
\* once, every caller observes the same fully initialised table, and once
\* the table is stored no later step changes it.
C20_InitOnce ==
    /\ []OnceStoredAndComplete
    /\ [][once.cell # <<>> => once'.cell = once.cell]_vars

\* C20 witness: first calls raced, one ran the closure and one waited for
\* it, and a thread's second call took the fast path: every thread holds the
\* same full table, stored once
C20_Witness ==
    /\ once.stores = 1
    /\ \E a \in Threads, b \in Threads, c \in Threads :
          /\ once.path[a] = "init"
          /\ once.path[b] = "wait"
          /\ once.path[c] = "fast"
          /\ once.calls[c] = 1
          /\ once.tpc[c] = "got"
    /\ \A t \in Threads : once.seen[t] # <<>> /\ FullTable(once.seen[t][1])


====
